---- MODULE Spec2Model ----
(***************************************************************************)
(* Model of prefect/_internal/schemas/validators.py: the field validators  *)
(* and reconcilers called while a configuration object is constructed.     *)
(* Every validator is a function of its arguments; a call is one action    *)
(* that records the operation, its arguments, its outcome (a returned      *)
(* value or a raised ValueError), the context mapping it worked on and the *)
(* warnings it emitted.                                                    *)
(***************************************************************************)
EXTENDS Integers, Sequences, FiniteSets, TLC

VARIABLES
    op,     \* name of the validator called last ("init" before any call)
    arg,    \* the arguments of that call
    ctx,    \* the `values` mapping of the object under construction
    ret,    \* outcome of the call: returned value or raised error
    diag    \* warnings.warn() calls made by the call, in order

vars == <<op, arg, ctx, ret, diag>>

\* ---------------------------------------------------------------------
\* Python values
\* ---------------------------------------------------------------------
\* Optional[str]: None, or a str given as the sequence of its characters.
None == [some |-> FALSE, s |-> <<>>]
Some(s) == [some |-> TRUE, s |-> s]

\* A returned value / a raised ValueError.
\* `field` is the field name the message starts with, `what` the fixed part
\* of the message, `text` the piece of the input the message embeds.
NoError == [kind |-> "none", field |-> "", what |-> "", text |-> <<>>]
Return(v) == [status |-> "ok", value |-> v, error |-> NoError]
Raise(kind, field, what, text) ==
    [status |-> "error", value |-> None,
     error |-> [kind |-> kind, field |-> field, what |-> what, text |-> text]]

StringsUpTo(alphabet, n) == UNION {[1..k -> alphabet] : k \in 0..n}

\* ---------------------------------------------------------------------
\* Name guards
\* ---------------------------------------------------------------------
LowercaseLetters == {"a", "z"}
Numbers == {"0", "9"}

\* "^[a-z0-9-]*$" and "^[a-z0-9_]*$": the character class of each pattern.
LOWERCASE_LETTERS_NUMBERS_AND_DASHES_ONLY_REGEX ==
    LowercaseLetters \cup Numbers \cup {"-"}
LOWERCASE_LETTERS_NUMBERS_AND_UNDERSCORES_REGEX ==
    LowercaseLetters \cup Numbers \cup {"_"}

\* re.match("^[class]*$", s): the starred class may stop after any prefix of
\* class characters; "$" matches at the end of the string and also just
\* before a newline that is the last character of the string.
re_match(class, s) ==
    LET star == {p \in 0..Len(s) : \A i \in 1..p : s[i] \in class}
        dollar(p) == \/ p = Len(s)
                     \/ p = Len(s) - 1 /\ s[Len(s)] = "\n"
    IN  \E p \in star : dollar(p)

raise_on_name_alphanumeric_dashes_only(value, field_name) ==
    IF value.some
       /\ ~re_match(LOWERCASE_LETTERS_NUMBERS_AND_DASHES_ONLY_REGEX, value.s)
    THEN Raise("ValueError", field_name,
               "must only contain lowercase letters, numbers, and dashes.",
               <<>>)
    ELSE Return(value)

raise_on_name_alphanumeric_underscores_only(value, field_name) ==
    IF value.some
       /\ ~re_match(LOWERCASE_LETTERS_NUMBERS_AND_UNDERSCORES_REGEX, value.s)
    THEN Raise("ValueError", field_name,
               "must only contain lowercase letters, numbers, and underscores.",
               <<>>)
    ELSE Return(value)

\* A wrapper calls the guard for its exception only and returns its own
\* argument.
Propagate(inner, value) ==
    IF inner.status = "error" THEN inner ELSE Return(value)

validate_block_document_name(value) ==
    IF value.some
    THEN Propagate(raise_on_name_alphanumeric_dashes_only(
                       value, "Block document name"), value)
    ELSE Return(value)

validate_artifact_key(value) ==
    Propagate(raise_on_name_alphanumeric_dashes_only(value, "Artifact key"),
              value)

validate_variable_name(value) ==
    IF value.some
    THEN Propagate(raise_on_name_alphanumeric_underscores_only(
                       value, "Variable name"), value)
    ELSE Return(value)

validate_block_type_slug(value) ==
    Propagate(raise_on_name_alphanumeric_dashes_only(value, "Block type slug"),
              value)

\* Inputs of the name guards.
MaxNameLen == 3
NameAlphabet == {"a", "0", "-", "_", "A", "\n"}
NameInputs == {None} \cup {Some(s) : s \in StringsUpTo(NameAlphabet, MaxNameLen)}

EmptyCtx == [k \in {} |-> None]

RaiseOnNameAlphanumericDashesOnly ==
    \E value \in NameInputs :
        /\ op' = "raise_on_name_alphanumeric_dashes_only"
        /\ arg' = [value |-> value, field_name |-> "value"]
        /\ ret' = raise_on_name_alphanumeric_dashes_only(value, "value")
        /\ diag' = <<>>
        /\ UNCHANGED ctx

RaiseOnNameAlphanumericUnderscoresOnly ==
    \E value \in NameInputs :
        /\ op' = "raise_on_name_alphanumeric_underscores_only"
        /\ arg' = [value |-> value, field_name |-> "value"]
        /\ ret' = raise_on_name_alphanumeric_underscores_only(value, "value")
        /\ diag' = <<>>
        /\ UNCHANGED ctx

ValidateBlockDocumentName ==
    \E value \in NameInputs :
        /\ op' = "validate_block_document_name"
        /\ arg' = [value |-> value, field_name |-> "Block document name"]
        /\ ret' = validate_block_document_name(value)
        /\ diag' = <<>>
        /\ UNCHANGED ctx

ValidateArtifactKey ==
    \E value \in NameInputs :
        /\ op' = "validate_artifact_key"
        /\ arg' = [value |-> value, field_name |-> "Artifact key"]
        /\ ret' = validate_artifact_key(value)
        /\ diag' = <<>>
        /\ UNCHANGED ctx

ValidateVariableName ==
    \E value \in NameInputs :
        /\ op' = "validate_variable_name"
        /\ arg' = [value |-> value, field_name |-> "Variable name"]
        /\ ret' = validate_variable_name(value)
        /\ diag' = <<>>
        /\ UNCHANGED ctx

ValidateBlockTypeSlug ==
    \E value \in NameInputs :
        /\ op' = "validate_block_type_slug"
        /\ arg' = [value |-> value, field_name |-> "Block type slug"]
        /\ ret' = validate_block_type_slug(value)
        /\ diag' = <<>>
        /\ UNCHANGED ctx

InitNames ==
    /\ op = "init"
    /\ arg = [value |-> None, field_name |-> ""]
    /\ ctx = EmptyCtx
    /\ ret = Return(None)
    /\ diag = <<>>

NextNames ==
    \/ RaiseOnNameAlphanumericDashesOnly
    \/ RaiseOnNameAlphanumericUnderscoresOnly
    \/ ValidateBlockDocumentName
    \/ ValidateArtifactKey
    \/ ValidateVariableName
    \/ ValidateBlockTypeSlug

SpecNames == InitNames /\ [][NextNames]_vars

DashGuards == {"raise_on_name_alphanumeric_dashes_only",
               "validate_block_document_name",
               "validate_artifact_key",
               "validate_block_type_slug"}
UnderscoreGuards == {"raise_on_name_alphanumeric_underscores_only",
                     "validate_variable_name"}

AllowedOnly(class, value) ==
    ~value.some \/ \A i \in 1..Len(value.s) : value.s[i] \in class

GuardClass ==
    IF op \in DashGuards
    THEN LowercaseLetters \cup Numbers \cup {"-"}
    ELSE LowercaseLetters \cup Numbers \cup {"_"}

\* C10: a name guard returns its input unchanged when the input is None or
\* is made only of the characters of its variant (lowercase letters, digits
\* and dashes, or lowercase letters, digits and underscores; the empty
\* string included), and fails with an error naming the field for every
\* string that contains any other character.
C10_NameGuardsAcceptExactlyTheClass ==
    op \in DashGuards \cup UnderscoreGuards =>
        IF AllowedOnly(GuardClass, arg.value)
        THEN ret.status = "ok" /\ ret.value = arg.value
        ELSE ret.status = "error" /\ ret.error.field = arg.field_name

\* ---------------------------------------------------------------------
\* Schedule validators: cron strings, recurrence rules, timezones
\* ---------------------------------------------------------------------
Whitespace == {" "}

\* str.split() without arguments: the maximal runs of non-whitespace.
RECURSIVE str_split(_)
str_split(s) ==
    IF s = <<>> THEN <<>>
    ELSE IF Head(s) \in Whitespace THEN str_split(Tail(s))
    ELSE LET n == CHOOSE k \in 1..Len(s) :
                      /\ \A i \in 1..k : s[i] \notin Whitespace
                      /\ k = Len(s) \/ s[k + 1] \in Whitespace
         IN  <<SubSeq(s, 1, n)>> \o str_split(SubSeq(s, n + 1, Len(s)))

\* str.casefold() on the characters of the model.
casefold_char(c) ==
    CASE c = "R" -> "r"
      [] c = "H" -> "h"
      [] OTHER -> c
str_casefold(s) == [i \in 1..Len(s) |-> casefold_char(s[i])]

RandomAndHashed == {<<"R">>, <<"H">>, <<"r">>, <<"h">>}

\* croniter_is_valid is the verdict of croniter.is_valid(v).
validate_cron_string_substring(v, croniter_is_valid) ==
    IF ~croniter_is_valid
    THEN Raise("ValueError", "", "Invalid cron string", v)
    ELSE IF \E i \in 1..Len(v) : <<casefold_char(v[i])>> \in RandomAndHashed
    THEN Raise("ValueError", "",
               "Random and Hashed expressions are unsupported", v)
    ELSE Return(v)

validate_cron_string(v, croniter_is_valid) ==
    LET fields == str_split(v)
    IN  IF ~croniter_is_valid
        THEN Raise("ValueError", "", "Invalid cron string", v)
        ELSE IF \E i \in 1..Len(fields) :
                    str_casefold(fields[i]) \in RandomAndHashed
        THEN Raise("ValueError", "",
                   "Random and Hashed expressions are unsupported", v)
        ELSE Return(v)

MAX_RRULE_LENGTH == 6500
ExcerptLength == 40

\* rrulestr_ok tells whether dateutil.rrule.rrulestr(v) returned (TRUE) or
\* raised ValueError (FALSE).
validate_rrule_string(v, rrulestr_ok) ==
    IF ~rrulestr_ok
    THEN Raise("ValueError", "", "Invalid RRule string", v)
    ELSE IF Len(v) > MAX_RRULE_LENGTH
    THEN Raise("ValueError", "", "Max length",
               SubSeq(v, 1, ExcerptLength))
    ELSE Return(v)

\* Optional[str] for a timezone name; names are atoms.
NoneName == [some |-> FALSE, s |-> ""]
Name(s) == [some |-> TRUE, s |-> s]

\* pendulum.tz.timezones(): the IANA zone names.
timezones == {"UTC", "America/New_York", "Europe/Berlin"}
\* tz.name of the fixed-offset zones ISO8601 parsing produces.
OffsetNames == {"+00:00", "-04:00"}

\* A pendulum.DateTime, of which only .tz matters here: None or a zone
\* with a name.
DateTime(tz) == [kind |-> "datetime", tz |-> tz, n |-> 0]
Number(n) == [kind |-> "int", tz |-> NoneName, n |-> n]

default_timezone_no_fallback(v, values) ==
    IF v.some
    THEN IF v.s # "" /\ v.s \notin timezones
         THEN Raise("ValueError", "", "Invalid timezone", v.s)
         ELSE Return(v)
    ELSE IF "anchor_date" \in DOMAIN values
    THEN LET anchor_date == values["anchor_date"]
             tz == IF ~anchor_date.tz.some THEN "UTC" ELSE anchor_date.tz.s
         IN  Return(Name(tz))
    ELSE Return(v)

default_timezone_empty_as_none(v, values) ==
    IF v.some /\ v.s # ""
    THEN IF v.s \notin timezones
         THEN Raise("ValueError", "", "Invalid timezone", v.s)
         ELSE Return(v)
    ELSE IF "anchor_date" \in DOMAIN values
    THEN LET anchor_date == values["anchor_date"]
             tz == IF ~anchor_date.tz.some THEN "UTC" ELSE anchor_date.tz.s
         IN  Return(Name(IF tz \in timezones THEN tz ELSE "UTC"))
    ELSE Return(v)

\* `values` is the mapping after `values = values or {}`.
default_timezone(v, values) ==
    IF v.some
    THEN IF v.s # "" /\ v.s \notin timezones
         THEN Raise("ValueError", "", "Invalid timezone", v.s)
         ELSE Return(v)
    ELSE IF "anchor_date" \in DOMAIN values
    THEN LET anchor_date == values["anchor_date"]
             tz == IF ~anchor_date.tz.some THEN "UTC" ELSE anchor_date.tz.s
         IN  Return(Name(IF tz \in timezones THEN tz ELSE "UTC"))
    ELSE Return(v)

\* Inputs of the schedule validators.
MaxCronLen == 3
CronAlphabet == {"R", "r", "H", "h", "0", " "}
CronInputs == StringsUpTo(CronAlphabet, MaxCronLen)

MaxRRuleExcess == 2
RRuleTokens == {<<"R", "D", "A", "T", "E", ";">>, <<"x">>}
RRuleLengths ==
    {0, 1, ExcerptLength - 1, ExcerptLength, ExcerptLength + 1}
    \cup (MAX_RRULE_LENGTH - 1)..(MAX_RRULE_LENGTH + MaxRRuleExcess)
Repeat(token, n) == [i \in 1..n |-> token[((i - 1) % Len(token)) + 1]]
RRuleInputs == {Repeat(t, n) : t \in RRuleTokens, n \in RRuleLengths}

TimezoneInputs ==
    {NoneName}
    \cup {Name(s) : s \in timezones \cup OffsetNames \cup {"", "Mars/Olympus"}}
AnchorDates ==
    {DateTime(NoneName)}
    \cup {DateTime(Name(s)) : s \in timezones \cup OffsetNames}
TimezoneContexts ==
    {EmptyCtx, [k \in {"interval"} |-> Number(3600)]}
    \cup {[k \in {"anchor_date"} |-> d] : d \in AnchorDates}
    \cup {[k \in {"anchor_date", "interval"} |->
              IF k = "anchor_date" THEN d ELSE Number(3600)] : d \in AnchorDates}

ValidateCronString ==
    \E v \in CronInputs, croniter_is_valid \in BOOLEAN :
        /\ op' = "validate_cron_string"
        /\ arg' = [v |-> v, oracle |-> croniter_is_valid]
        /\ ret' = validate_cron_string(v, croniter_is_valid)
        /\ diag' = <<>>
        /\ UNCHANGED ctx

ValidateRRuleString ==
    \E v \in RRuleInputs, rrulestr_ok \in BOOLEAN :
        /\ op' = "validate_rrule_string"
        /\ arg' = [v |-> v, oracle |-> rrulestr_ok]
        /\ ret' = validate_rrule_string(v, rrulestr_ok)
        /\ diag' = <<>>
        /\ UNCHANGED ctx

\* values_given = FALSE is the call default_timezone(v) / values=None.
DefaultTimezone ==
    \E v \in TimezoneInputs, values_given \in BOOLEAN,
       values \in TimezoneContexts :
        /\ ~values_given => values = EmptyCtx
        /\ op' = "default_timezone"
        /\ arg' = [v |-> v, oracle |-> values_given]
        /\ ctx' = values
        /\ ret' = default_timezone(v, values)
        /\ diag' = <<>>

InitSchedule ==
    /\ op = "init"
    /\ arg = [v |-> <<>>, oracle |-> FALSE]
    /\ ctx = EmptyCtx
    /\ ret = Return(<<>>)
    /\ diag = <<>>

NextSchedule ==
    \/ ValidateCronString
    \/ ValidateRRuleString

SpecSchedule == InitSchedule /\ [][NextSchedule]_vars

InitTimezone ==
    /\ op = "init"
    /\ arg = [v |-> NoneName, oracle |-> FALSE]
    /\ ctx = EmptyCtx
    /\ ret = Return(NoneName)
    /\ diag = <<>>

NextTimezone == DefaultTimezone

SpecTimezone == InitTimezone /\ [][NextTimezone]_vars

\* C1: every recurrence-rule string longer than 6500 characters fails with
\* the length-limit error, whether or not it parses, and the message embeds
\* exactly its first 40 characters.
C1_OverlongRRuleFailsWithLimitError ==
    (op = "validate_rrule_string" /\ Len(arg.v) > MAX_RRULE_LENGTH) =>
        /\ ret.status = "error"
        /\ ret.error.what = "Max length"
        /\ ret.error.text = SubSeq(arg.v, 1, 40)

\* A field of v: a maximal run of non-whitespace characters, here of one
\* character c at position i.
StandaloneAt(v, i) ==
    /\ i = 1 \/ v[i - 1] \in Whitespace
    /\ i = Len(v) \/ v[i + 1] \in Whitespace
HasStandaloneRorH(v) ==
    \E i \in 1..Len(v) : v[i] \in {"R", "r", "H", "h"} /\ StandaloneAt(v, i)

\* C2: validate_cron_string returns its input unchanged exactly when the
\* external checker accepts it and no whitespace-separated field is R or H
\* in either case; every other string fails with the cron syntax error.
C2_CronAcceptedIffValidAndNoRandomHashed ==
    op = "validate_cron_string" =>
        IF arg.oracle /\ ~HasStandaloneRorH(arg.v)
        THEN ret = Return(arg.v)
        ELSE ret.status = "error" /\ ret.error.kind = "ValueError"
                /\ ret.error.what \in
                      {"Invalid cron string",
                       "Random and Hashed expressions are unsupported"}

\* The external checker accepted a string with a standalone R field and the
\* validator rejected it all the same.
C2_Witness ==
    /\ op = "validate_cron_string"
    /\ arg.v = <<"R", " ", "0">>
    /\ arg.oracle
    /\ ret.status = "error"

\* C3: with no explicit timezone and an anchor_date in the context the
\* result is the anchor's zone name when that is an IANA zone and "UTC"
\* otherwise; with no explicit timezone and no anchor_date it is None.
C3_TimezoneInferredFromAnchor ==
    (op = "default_timezone" /\ ~arg.v.some) =>
        IF "anchor_date" \in DOMAIN ctx
        THEN LET tz == ctx["anchor_date"].tz
             IN  ret = Return(Name(IF tz.some /\ tz.s \in timezones
                                   THEN tz.s ELSE "UTC"))
        ELSE ret = Return(NoneName)

\* An anchor carrying the numeric offset -04:00 resolved to "UTC".
C3_Witness ==
    /\ op = "default_timezone"
    /\ ~arg.v.some
    /\ "anchor_date" \in DOMAIN ctx
    /\ ctx["anchor_date"].tz = Name("-04:00")
    /\ ret = Return(Name("UTC"))

\* C4: an explicit timezone (not None) is returned unchanged when it is the
\* empty string or an IANA zone name and fails with the timezone error
\* otherwise, whatever anchor_date the context carries.
C4_ExplicitTimezoneCheckedNotInferred ==
    (op = "default_timezone" /\ arg.v.some) =>
        IF arg.v.s = "" \/ arg.v.s \in timezones
        THEN ret = Return(arg.v)
        ELSE ret.status = "error" /\ ret.error.what = "Invalid timezone"

\* The empty string came back as the empty string although the context
\* has an anchor in a named zone.
C4_Witness ==
    /\ op = "default_timezone"
    /\ arg.v = Name("")
    /\ "anchor_date" \in DOMAIN ctx
    /\ ctx["anchor_date"].tz = Name("Europe/Berlin")
    /\ ret = Return(Name(""))

\* ---------------------------------------------------------------------
\* Field-migration reconcilers
\* ---------------------------------------------------------------------
\* The Python values a raw configuration mapping holds in the model.
PyNone == [kind |-> "none", n |-> 0, s |-> ""]
PyInt(n) == [kind |-> "int", n |-> n, s |-> ""]
PyBool(b) == [kind |-> "bool", n |-> IF b THEN 1 ELSE 0, s |-> ""]
PyStr(s) == [kind |-> "str", n |-> 0, s |-> s]

\* bool(x)
truthy(x) ==
    CASE x.kind = "none" -> FALSE
      [] x.kind \in {"int", "bool"} -> x.n # 0
      [] x.kind = "str" -> x.s # ""

\* x != 0: only a number (or bool) equal to zero compares equal to 0.
py_ne_zero(x) == ~(x.kind \in {"int", "bool"} /\ x.n = 0)

\* x is None
is_none(x) == x.kind = "none"

\* values.get(key, default)
dict_get(values, key, default) ==
    IF key \in DOMAIN values THEN values[key] ELSE default

\* values[key] = v
dict_set(values, key, v) ==
    [k \in DOMAIN values \cup {key} |-> IF k = key THEN v ELSE values[k]]

\* values.pop(key, None), the mapping that is left
dict_pop(values, key) ==
    [k \in DOMAIN values \ {key} |-> values[k]]

UserWarning(about) ==
    [category |-> "UserWarning", about |-> about,
     use_instead |-> {"work_pool_name", "work_queue_name"}]

\* The result is the copy that is returned together with the warnings
\* emitted; the argument itself is not assigned to.
remove_old_deployment_fields_keeps_one(values) ==
    LET values_copy ==
            dict_pop(dict_pop(dict_pop(values,
                "worker_pool_queue_id"), "worker_pool_name"),
                "worker_pool_queue_name")
        worker_pool_queue_id == dict_get(values, "worker_pool_queue_id", PyNone)
        worker_pool_name == dict_get(values, "worker_pool_name", PyNone)
        worker_pool_queue_name ==
            dict_get(values, "worker_pool_queue_name", PyNone)
        warn1 == IF truthy(worker_pool_queue_id)
                 THEN <<UserWarning({"worker_pool_queue_id"})>> ELSE <<>>
        warn2 == IF truthy(worker_pool_name) \/ truthy(worker_pool_queue_name)
                 THEN <<UserWarning({"worker_pool_name",
                                     "worker_pool_queue_name",
                                     "work_pool_name"})>>
                 ELSE <<>>
    IN  [values_copy |-> values_copy, warnings |-> warn1 \o warn2]

remove_old_deployment_fields(values) ==
    LET values_copy ==
            dict_pop(dict_pop(dict_pop(dict_pop(values,
                "worker_pool_queue_id"), "worker_pool_name"),
                "worker_pool_queue_name"), "work_pool_queue_name")
        worker_pool_queue_id == dict_get(values, "worker_pool_queue_id", PyNone)
        worker_pool_name == dict_get(values, "worker_pool_name", PyNone)
        worker_pool_queue_name ==
            dict_get(values, "worker_pool_queue_name", PyNone)
        work_pool_queue_name == dict_get(values, "work_pool_queue_name", PyNone)
        warn1 == IF truthy(worker_pool_queue_id)
                 THEN <<UserWarning({"worker_pool_queue_id"})>> ELSE <<>>
        warn2 == IF \/ truthy(worker_pool_name)
                    \/ truthy(worker_pool_queue_name)
                    \/ truthy(work_pool_queue_name)
                 THEN <<UserWarning({"worker_pool_name",
                                     "worker_pool_queue_name",
                                     "work_pool_name"})>>
                 ELSE <<>>
    IN  [values_copy |-> values_copy, warnings |-> warn1 \o warn2]

reconcile_paused_deployment_unguarded(values) ==
    LET paused == dict_get(values, "paused", PyNone)
    IN  dict_set(values, "paused", PyBool(is_none(paused)))

reconcile_paused_deployment(values) ==
    LET paused == dict_get(values, "paused", PyNone)
    IN  IF is_none(paused)
        THEN dict_set(values, "paused", PyBool(FALSE))
        ELSE values

set_run_policy_deprecated_fields_only_none(values) ==
    LET v1 == IF /\ is_none(dict_get(values, "retries", PyNone))
                 /\ py_ne_zero(dict_get(values, "max_retries", PyInt(0)))
              THEN dict_set(values, "retries", values["max_retries"])
              ELSE values
    IN  IF /\ is_none(dict_get(v1, "retry_delay", PyNone))
           /\ py_ne_zero(dict_get(v1, "retry_delay_seconds", PyInt(0)))
        THEN dict_set(v1, "retry_delay", v1["retry_delay_seconds"])
        ELSE v1

set_run_policy_deprecated_fields(values) ==
    LET v1 == IF /\ ~truthy(dict_get(values, "retries", PyNone))
                 /\ py_ne_zero(dict_get(values, "max_retries", PyInt(0)))
              THEN dict_set(values, "retries", values["max_retries"])
              ELSE values
    IN  IF /\ ~truthy(dict_get(v1, "retry_delay", PyNone))
           /\ py_ne_zero(dict_get(v1, "retry_delay_seconds", PyInt(0)))
        THEN dict_set(v1, "retry_delay", v1["retry_delay_seconds"])
        ELSE v1

\* Raw mappings the reconcilers receive.
MaxRetries == 2
Absent == [kind |-> "absent", n |-> 0, s |-> ""]
Mapping(f) == [k \in {x \in DOMAIN f : f[x] # Absent} |-> f[k]]

PolicyKeys == {"retries", "max_retries", "retry_delay", "retry_delay_seconds"}
PolicyValues == {Absent, PyNone} \cup {PyInt(n) : n \in 0..MaxRetries}
PolicyContexts == {Mapping(f) : f \in [PolicyKeys -> PolicyValues]}

DeprecatedKeys == {"worker_pool_queue_id", "worker_pool_name",
                   "worker_pool_queue_name", "work_pool_queue_name"}
DeploymentKeys == DeprecatedKeys \cup {"paused", "name"}
DeploymentValues(k) ==
    CASE k \in DeprecatedKeys -> {Absent, PyNone, PyStr("q")}
      [] k = "paused" -> {Absent, PyNone, PyBool(FALSE), PyBool(TRUE)}
      [] k = "name" -> {Absent, PyStr("d")}
DeploymentContexts ==
    {Mapping(f) : f \in {g \in [DeploymentKeys ->
                                   {Absent, PyNone, PyStr("q"), PyStr("d"),
                                    PyBool(FALSE), PyBool(TRUE)}] :
                            \A k \in DeploymentKeys : g[k] \in DeploymentValues(k)}}

RemoveOldDeploymentFields ==
    LET r == remove_old_deployment_fields(ctx)
    IN  /\ op' = "remove_old_deployment_fields"
        /\ arg' = [values |-> ctx]
        /\ ret' = Return(r.values_copy)
        /\ diag' = r.warnings
        /\ UNCHANGED ctx

ReconcilePausedDeployment ==
    /\ op' = "reconcile_paused_deployment"
    /\ arg' = [values |-> ctx]
    /\ ctx' = reconcile_paused_deployment(ctx)
    /\ ret' = Return(ctx')
    /\ diag' = <<>>

SetRunPolicyDeprecatedFields ==
    /\ op' = "set_run_policy_deprecated_fields"
    /\ arg' = [values |-> ctx]
    /\ ctx' = set_run_policy_deprecated_fields(ctx)
    /\ ret' = Return(ctx')
    /\ diag' = <<>>

InitMigration ==
    /\ op = "init"
    /\ ctx \in PolicyContexts \cup DeploymentContexts
    /\ arg = [values |-> ctx]
    /\ ret = Return(ctx)
    /\ diag = <<>>

NextMigration ==
    \/ RemoveOldDeploymentFields
    \/ ReconcilePausedDeployment
    \/ SetRunPolicyDeprecatedFields

SpecMigration == InitMigration /\ [][NextMigration]_vars

Same(before, after, k) ==
    /\ k \in DOMAIN after <=> k \in DOMAIN before
    /\ k \in DOMAIN before => after[k] = before[k]

\* The legacy field carries a nonzero value: it is there and is not zero.
CarriesNonzero(m, k) == k \in DOMAIN m /\ m[k] # PyInt(0)
AbsentOrFalsy(m, k) == k \notin DOMAIN m \/ m[k] \in {PyNone, PyInt(0)}

CopiedForward(before, after, modern, legacy) ==
    IF AbsentOrFalsy(before, modern) /\ CarriesNonzero(before, legacy)
    THEN modern \in DOMAIN after /\ after[modern] = before[legacy]
    ELSE Same(before, after, modern)

\* C6: set_run_policy_deprecated_fields makes the modern field equal to the
\* legacy one when the modern field is absent or falsy and the legacy field
\* carries a nonzero value, leaves the modern field as it was in every
\* other case, and leaves the legacy keys and all other keys as they were.
C6_LegacyRetryFieldsCopiedForward ==
    op = "set_run_policy_deprecated_fields" =>
        /\ ret = Return(ctx)
        /\ CopiedForward(arg.values, ctx, "retries", "max_retries")
        /\ CopiedForward(arg.values, ctx, "retry_delay", "retry_delay_seconds")
        /\ \A k \in (DOMAIN arg.values \cup DOMAIN ctx)
                        \ {"retries", "retry_delay"} :
               Same(arg.values, ctx, k)

\* {"retries": 0, "max_retries": 2} was reconciled to retries == 2.
C6_Witness ==
    /\ op = "set_run_policy_deprecated_fields"
    /\ DOMAIN arg.values = {"retries", "max_retries"}
    /\ arg.values["retries"] = PyInt(0)
    /\ arg.values["max_retries"] = PyInt(2)
    /\ ctx["retries"] = PyInt(2)
    /\ ctx["max_retries"] = PyInt(2)

\* C7: each reconciler is idempotent: applied to the mapping it has just
\* produced, it produces that mapping again.
C7_ReconcilersIdempotent ==
    /\ op = "remove_old_deployment_fields" =>
           remove_old_deployment_fields(ret.value).values_copy = ret.value
    /\ op = "set_run_policy_deprecated_fields" =>
           set_run_policy_deprecated_fields(ctx) = ctx
    /\ op = "reconcile_paused_deployment" =>
           reconcile_paused_deployment(ctx) = ctx

\* A reconciler has just rewritten the mapping it was given.
C7_Witness ==
    /\ op = "reconcile_paused_deployment"
    /\ "paused" \in DOMAIN arg.values
    /\ arg.values["paused"] = PyNone
    /\ ctx["paused"] = PyBool(FALSE)
    /\ ctx # arg.values

RemovedAndKept ==
    /\ ret.status = "ok"
    /\ DOMAIN ret.value = DOMAIN arg.values \ DeprecatedKeys
    /\ \A k \in DOMAIN ret.value : ret.value[k] = arg.values[k]
    /\ ctx = arg.values

NamesReplacements ==
    /\ diag # <<>>
    /\ \A i \in 1..Len(diag) :
           /\ diag[i].category = "UserWarning"
           /\ diag[i].use_instead = {"work_pool_name", "work_queue_name"}

\* C8 as stated: remove_old_deployment_fields never fails, returns a copy
\* without the deprecated keys and with every other key as it was, leaves
\* its input alone, and warns whenever it removes a deprecated key that was
\* present in the input.
C8_WarnsWheneverKeyRemoved ==
    op = "remove_old_deployment_fields" =>
        /\ RemovedAndKept
        /\ (DOMAIN arg.values \cap DeprecatedKeys # {}) => NamesReplacements

\* C8 as amended: the same, with the warning promised whenever a removed
\* deprecated key had a truthy value in the input.
C8_WarnsWhenTruthyKeyRemoved ==
    op = "remove_old_deployment_fields" =>
        /\ RemovedAndKept
        /\ (\E k \in DOMAIN arg.values \cap DeprecatedKeys :
                truthy(arg.values[k])) => NamesReplacements

\* A deprecated key with a value was removed, another key kept, and the
\* warning emitted.
C8_Witness ==
    /\ op = "remove_old_deployment_fields"
    /\ "work_pool_queue_name" \in DOMAIN arg.values
    /\ arg.values["work_pool_queue_name"] = PyStr("q")
    /\ "name" \in DOMAIN arg.values
    /\ DOMAIN ret.value = {"name"}
    /\ Len(diag) = 1

\* ---------------------------------------------------------------------
\* Metadata sanitizer
\* ---------------------------------------------------------------------
\* Metadata values: a str (its characters) or a list of one-digit ints.
MetaStr(s) == [kind |-> "str", s |-> s, items |-> <<>>]
MetaList(items) == [kind |-> "list", s |-> <<>>, items |-> items]

DigitChars == <<"0", "1", "2", "3", "4", "5", "6", "7", "8", "9">>

\* str(x): a str is its own representation; a list is printed as
\* "[d, d, d]".
py_str(x) ==
    IF x.kind = "str" THEN x.s
    ELSE IF x.items = <<>> THEN <<"[", "]">>
    ELSE LET n == Len(x.items)
         IN  [i \in 1..(3 * n) |->
                 IF i = 1 THEN "["
                 ELSE IF i = 3 * n THEN "]"
                 ELSE IF i % 3 = 2 THEN DigitChars[x.items[(i + 1) \div 3] + 1]
                 ELSE IF i % 3 = 0 THEN ","
                 ELSE " "]

max_metadata_length == 500

\* Optional mapping: None, or the mapping.
NoneMap == [some |-> FALSE, map |-> EmptyCtx]
SomeMap(m) == [some |-> TRUE, map |-> m]

validate_max_metadata_length_inclusive(v) ==
    IF ~v.some THEN v
    ELSE SomeMap([key \in DOMAIN v.map |->
            IF Len(py_str(v.map[key])) >= max_metadata_length
            THEN MetaStr(SubSeq(py_str(v.map[key]), 1, max_metadata_length)
                         \o <<".", ".", ".">>)
            ELSE v.map[key]])

\* The mapping after the loop has assigned to the keys it truncates.
validate_max_metadata_length(v) ==
    IF ~v.some THEN v
    ELSE SomeMap([key \in DOMAIN v.map |->
            IF Len(py_str(v.map[key])) > max_metadata_length
            THEN MetaStr(SubSeq(py_str(v.map[key]), 1, max_metadata_length)
                         \o <<".", ".", ".">>)
            ELSE v.map[key]])

\* Inputs of the sanitizer.
MaxMetadataExcess == 2
MetadataStrLengths ==
    {0, 5} \cup (max_metadata_length - 1)..(max_metadata_length + MaxMetadataExcess)
    \cup {max_metadata_length + 100}
MetadataListLengths ==
    {0, 2, max_metadata_length \div 3, (max_metadata_length \div 3) + 1}
MetadataValues ==
    {MetaStr(Repeat(<<"a", "b", "c">>, n)) : n \in MetadataStrLengths}
    \cup {MetaList([i \in 1..n |-> i % 10]) : n \in MetadataListLengths}
MetaAbsent == [kind |-> "absent", s |-> <<>>, items |-> <<>>]
MetadataKeys == {"k", "other"}
MetadataInputs ==
    {NoneMap}
    \cup {SomeMap([k \in {x \in MetadataKeys : f[x] # MetaAbsent} |-> f[k]]) :
             f \in [MetadataKeys -> MetadataValues \cup {MetaAbsent}]}

ValidateMaxMetadataLength ==
    \E v \in MetadataInputs :
        /\ op' = "validate_max_metadata_length"
        /\ arg' = [v |-> v]
        /\ ret' = Return(validate_max_metadata_length(v))
        /\ ctx' = ret'.value.map
        /\ diag' = <<>>

InitMetadata ==
    /\ op = "init"
    /\ arg = [v |-> NoneMap]
    /\ ctx = EmptyCtx
    /\ ret = Return(NoneMap)
    /\ diag = <<>>

NextMetadata == ValidateMaxMetadataLength

SpecMetadata == InitMetadata /\ [][NextMetadata]_vars

\* C9: validate_max_metadata_length never fails; None gives None; in a
\* mapping every value whose string representation is longer than 500
\* characters becomes the first 500 characters of that representation
\* followed by "..." (503 characters), every other value stays the value it
\* was, and the keys stay the same.
C9_MetadataTruncatedTo500PlusMarker ==
    op = "validate_max_metadata_length" =>
        /\ ret.status = "ok"
        /\ ret.value.some = arg.v.some
        /\ DOMAIN ret.value.map = DOMAIN arg.v.map
        /\ \A k \in DOMAIN arg.v.map :
               LET before == arg.v.map[k]
                   after == ret.value.map[k]
               IN  IF Len(py_str(before)) > 500
                   THEN /\ after.kind = "str"
                        /\ Len(after.s) = 503
                        /\ SubSeq(after.s, 1, 500) = SubSeq(py_str(before), 1, 500)
                        /\ SubSeq(after.s, 501, 503) = <<".", ".", ".">>
                   ELSE after = before

\* A 600-character string was cut to 503 characters, a list whose
\* representation has 501 characters became a string, and a value of
\* exactly 500 characters was left alone.
C9_Witness ==
    /\ op = "validate_max_metadata_length"
    /\ arg.v.some
    /\ DOMAIN arg.v.map = {"k", "other"}
    /\ arg.v.map["k"].kind = "list"
    /\ Len(py_str(arg.v.map["k"])) = 501
    /\ ret.value.map["k"].kind = "str"
    /\ Len(ret.value.map["k"].s) = 503
    /\ Len(arg.v.map["other"].s) = 500
    /\ ret.value.map["other"] = arg.v.map["other"]

\* ---------------------------------------------------------------------
\* Schema conformance
\* ---------------------------------------------------------------------
\* JSON values: an integer, a string, an object (mapping), or None.
NoProps == [k \in {} |-> 0]
JNone == [kind |-> "none", map |-> NoProps]
JInt == [kind |-> "integer", map |-> NoProps]
JStr == [kind |-> "string", map |-> NoProps]
JObj(m) == [kind |-> "object", map |-> m]

\* Schema documents in the dialect {type, properties, required}.
\* has_required tells whether the document has a "required" key.
NoneSchema == [type |-> "none", properties |-> NoProps,
               has_required |-> FALSE, required |-> {}]
TypeSchema(t) == [type |-> t, properties |-> NoProps,
                  has_required |-> FALSE, required |-> {}]
ObjectSchema(props, req) ==
    [type |-> "object", properties |-> props,
     has_required |-> req # {}, required |-> req]

JsonTypes == {"integer", "string", "object"}

\* remove_nested_keys(["required"], schema): the document without its
\* "required" keys, at every nesting level; None stays None.
RECURSIVE remove_nested_keys(_)
remove_nested_keys(schema) ==
    IF schema.type = "none" THEN schema
    ELSE [type |-> schema.type,
          properties |-> [k \in DOMAIN schema.properties |->
                             remove_nested_keys(schema.properties[k])],
          has_required |-> FALSE,
          required |-> {}]

\* jsonschema's check of the schema itself: every "type" names a JSON type.
RECURSIVE check_schema(_)
check_schema(schema) ==
    /\ schema.type \in JsonTypes
    /\ \A k \in DOMAIN schema.properties : check_schema(schema.properties[k])

\* The validation errors of an instance against a schema, each with the
\* keyword that failed and the path of the instance it failed at.
RECURSIVE iter_errors(_, _, _)
iter_errors(instance, schema, path) ==
    LET type_errors ==
            IF instance.kind # schema.type
            THEN {[validator |-> "type", path |-> path]} ELSE {}
        required_errors ==
            IF instance.kind = "object" /\ schema.has_required
               /\ schema.required \ DOMAIN instance.map # {}
            THEN {[validator |-> "required", path |-> path]} ELSE {}
        property_errors ==
            IF instance.kind = "object"
            THEN UNION {iter_errors(instance.map[k], schema.properties[k],
                                    Append(path, k)) :
                          k \in DOMAIN schema.properties \cap DOMAIN instance.map}
            ELSE {}
    IN  type_errors \cup required_errors \cup property_errors

\* jsonschema.validate(values, schema)
jsonschema_validate(values, schema) ==
    IF ~check_schema(schema) THEN "SchemaError"
    ELSE IF iter_errors(values, schema, <<>>) # {} THEN "ValidationError"
    ELSE "valid"

validate_values_conform_to_schema_keeps_required(values, schema, ignore_required) ==
    LET outcome ==
            IF schema.type # "none" /\ values.kind # "none"
            THEN jsonschema_validate(values, schema) ELSE "valid"
    IN  CASE outcome = "ValidationError" ->
                 Raise("ValueError", "", "Validation failed", <<>>)
          [] outcome = "SchemaError" ->
                 Raise("ValueError", "",
                       "The provided schema is not a valid json schema", <<>>)
          [] OTHER -> Return(JNone)

validate_values_conform_to_schema(values, schema, ignore_required) ==
    LET schema1 == IF ignore_required THEN remove_nested_keys(schema)
                   ELSE schema
        outcome ==
            IF schema1.type # "none" /\ values.kind # "none"
            THEN jsonschema_validate(values, schema1) ELSE "valid"
    IN  CASE outcome = "ValidationError" ->
                 Raise("ValueError", "", "Validation failed", <<>>)
          [] outcome = "SchemaError" ->
                 Raise("ValueError", "",
                       "The provided schema is not a valid json schema", <<>>)
          [] OTHER -> Return(JNone)

\* values.get("enforce_parameter_schema") is a flag or None;
\* values.get("parameter_openapi_schema") a schema document or None.
validate_parameters_conform_to_schema(parameters, values) ==
    IF truthy(dict_get(values, "enforce_parameter_schema", PyNone))
    THEN LET checked == validate_values_conform_to_schema(
                            parameters,
                            dict_get(values, "parameter_openapi_schema",
                                     NoneSchema),
                            TRUE)
         IN  IF checked.status = "error" THEN checked ELSE Return(parameters)
    ELSE Return(parameters)

\* Inputs of the conformance checker: schemas and instances nested up to
\* MaxSchemaDepth objects deep. An object schema declares the properties x
\* (any schema one level down) and y (a string).
MaxSchemaDepth == 2
RequiredSets == {{}, {"x"}, {"x", "y"}}

RECURSIVE SchemasOfDepth(_)
SchemasOfDepth(d) ==
    IF d = 0 THEN {TypeSchema("integer"), TypeSchema("string"), TypeSchema("bogus")}
    ELSE SchemasOfDepth(0)
         \cup {ObjectSchema([k \in {"x", "y"} |->
                                IF k = "x" THEN c ELSE TypeSchema("string")], r) :
                  c \in SchemasOfDepth(d - 1), r \in RequiredSets}

JAbsent == [kind |-> "absent", map |-> NoProps]
RECURSIVE InstancesOfDepth(_)
InstancesOfDepth(d) ==
    IF d = 0 THEN {JInt, JStr}
    ELSE InstancesOfDepth(0)
         \cup {JObj([k \in {n \in {"x", "y"} :
                               (IF n = "x" THEN vx ELSE vy) # JAbsent} |->
                        IF k = "x" THEN vx ELSE vy]) :
                  vx \in InstancesOfDepth(d - 1) \cup {JAbsent},
                  vy \in {JAbsent, JStr, JInt}}

SchemaInputs ==
    {NoneSchema} \cup {s \in SchemasOfDepth(MaxSchemaDepth) : s.type = "object"}
ValuesInputs ==
    {JNone} \cup {v \in InstancesOfDepth(MaxSchemaDepth) : v.kind = "object"}
EnforceInputs == {Absent, PyNone, PyBool(FALSE), PyBool(TRUE)}
SchemaContexts ==
    {[k \in {n \in {"enforce_parameter_schema", "parameter_openapi_schema"} :
                /\ n = "enforce_parameter_schema" => e # Absent
                /\ n = "parameter_openapi_schema" => s # NoneSchema} |->
         IF k = "enforce_parameter_schema" THEN e ELSE s] :
        e \in EnforceInputs, s \in SchemaInputs}

\* validate_values_conform_to_schema(values, schema, ignore_required), given
\* the schema the object under construction declares.
ValidateValuesConformToSchema ==
    /\ op = "init"
    /\ op' = "validate_values_conform_to_schema"
    /\ ret' = validate_values_conform_to_schema(
                  arg.values,
                  dict_get(ctx, "parameter_openapi_schema", NoneSchema),
                  arg.ignore_required)
    /\ diag' = <<>>
    /\ UNCHANGED <<arg, ctx>>

ValidateParametersConformToSchema ==
    /\ op = "init"
    /\ op' = "validate_parameters_conform_to_schema"
    /\ ret' = validate_parameters_conform_to_schema(arg.values, ctx)
    /\ diag' = <<>>
    /\ UNCHANGED <<arg, ctx>>

InitSchema ==
    /\ op = "init"
    /\ arg \in [values : ValuesInputs, ignore_required : BOOLEAN]
    /\ ctx \in SchemaContexts
    /\ ret = Return(JNone)
    /\ diag = <<>>

NextSchema ==
    \/ ValidateValuesConformToSchema
    \/ ValidateParametersConformToSchema

SpecSchema == InitSchema /\ [][NextSchema]_vars

\* A value of the instance has another type than the schema gives it.
RECURSIVE TypeMismatch(_, _)
TypeMismatch(instance, schema) ==
    \/ instance.kind # schema.type
    \/ \E k \in DOMAIN schema.properties \cap DOMAIN instance.map :
           TypeMismatch(instance.map[k], schema.properties[k])

\* The instance omits a field some `required` list of the schema names.
RECURSIVE OmitsRequired(_, _)
OmitsRequired(instance, schema) ==
    /\ instance.kind = "object"
    /\ \/ schema.required \ DOMAIN instance.map # {}
       \/ \E k \in DOMAIN schema.properties \cap DOMAIN instance.map :
              OmitsRequired(instance.map[k], schema.properties[k])

DeclaredSchema == dict_get(ctx, "parameter_openapi_schema", NoneSchema)
Checkable ==
    /\ arg.values.kind # "none"
    /\ DeclaredSchema.type # "none"
    /\ check_schema(DeclaredSchema)

\* C5: with ignore_required=True the checker accepts a mapping exactly when
\* no value mismatches its type, however many required fields are omitted
\* at any level, and with ignore_required=False an omission is rejected too;
\* validate_parameters_conform_to_schema checks with ignore_required=True,
\* only when enforce_parameter_schema is truthy, and returns the parameters.
C5_IgnoreRequiredRelaxesOnlyRequired ==
    /\ (op = "validate_values_conform_to_schema" /\ Checkable) =>
           IF arg.ignore_required
           THEN ret.status = "ok" <=> ~TypeMismatch(arg.values, DeclaredSchema)
           ELSE ret.status = "ok" <=>
                    /\ ~TypeMismatch(arg.values, DeclaredSchema)
                    /\ ~OmitsRequired(arg.values, DeclaredSchema)
    /\ op = "validate_parameters_conform_to_schema" =>
           /\ ret.status = "ok" => ret.value = arg.values
           /\ ret.status = "error" =>
                  /\ "enforce_parameter_schema" \in DOMAIN ctx
                  /\ ctx["enforce_parameter_schema"] = PyBool(TRUE)
           /\ ("enforce_parameter_schema" \in DOMAIN ctx
               /\ ctx["enforce_parameter_schema"] = PyBool(TRUE)
               /\ Checkable) =>
                  (ret.status = "ok" <=>
                       ~TypeMismatch(arg.values, DeclaredSchema))

\* A mapping that omits a required field two levels down and has no type
\* mismatch was accepted with ignore_required=True.
C5_Witness ==
    /\ op = "validate_values_conform_to_schema"
    /\ arg.ignore_required
    /\ Checkable
    /\ DeclaredSchema.required = {"x"}
    /\ DeclaredSchema.properties["x"].required = {"x", "y"}
    /\ "x" \in DOMAIN arg.values.map
    /\ arg.values.map["x"].kind = "object"
    /\ DOMAIN arg.values.map["x"].map = {"x"}
    /\ OmitsRequired(arg.values, DeclaredSchema)
    /\ ~TypeMismatch(arg.values, DeclaredSchema)
    /\ ret.status = "ok"

\* ---------------------------------------------------------------------
\* Schema self-validation
\* ---------------------------------------------------------------------
validate_parameter_openapi_schema_always_checks(schema, values) ==
    IF schema.type # "none" /\ ~check_schema(schema)
    THEN Raise("ValueError", "",
               "The provided schema is not a valid json schema", <<>>)
    ELSE Return(schema)

\* jsonschema.Draft202012Validator.check_schema(schema) raises SchemaError
\* when the document is not a valid schema.
validate_parameter_openapi_schema(schema, values) ==
    IF truthy(dict_get(values, "enforce_parameter_schema", PyNone))
    THEN IF schema.type # "none" /\ ~check_schema(schema)
         THEN Raise("ValueError", "",
                    "The provided schema is not a valid json schema", <<>>)
         ELSE Return(schema)
    ELSE Return(schema)

\* Contexts with and without the enforcement flag.
EnforceContexts ==
    {[k \in {n \in {"enforce_parameter_schema"} : e # Absent} |-> e] :
        e \in EnforceInputs}

ValidateParameterOpenapiSchema ==
    /\ op = "init"
    /\ op' = "validate_parameter_openapi_schema"
    /\ ret' = validate_parameter_openapi_schema(arg.schema, ctx)
    /\ diag' = <<>>
    /\ UNCHANGED <<arg, ctx>>

InitSchemaDefinition ==
    /\ op = "init"
    /\ arg \in [schema : SchemaInputs]
    /\ ctx \in EnforceContexts
    /\ ret = Return(NoneSchema)
    /\ diag = <<>>

NextSchemaDefinition == ValidateParameterOpenapiSchema

SpecSchemaDefinition == InitSchemaDefinition /\ [][NextSchemaDefinition]_vars

\* Some "type" of the document, at any level, is not a JSON type.
RECURSIVE HasUnknownType(_)
HasUnknownType(schema) ==
    \/ schema.type \notin {"integer", "string", "object"}
    \/ \E k \in DOMAIN schema.properties :
           HasUnknownType(schema.properties[k])

EnforcementOn ==
    /\ "enforce_parameter_schema" \in DOMAIN ctx
    /\ ctx["enforce_parameter_schema"] = PyBool(TRUE)

\* C11: validate_parameter_openapi_schema fails with the schema-definition
\* error exactly when enforce_parameter_schema is truthy, the schema is not
\* None and the schema is not a valid schema document; in every other case
\* it returns the schema unchanged.
C11_SchemaCheckedOnlyUnderEnforcement ==
    op = "validate_parameter_openapi_schema" =>
        IF EnforcementOn /\ arg.schema # NoneSchema
           /\ HasUnknownType(arg.schema)
        THEN /\ ret.status = "error"
             /\ ret.error.what =
                    "The provided schema is not a valid json schema"
        ELSE ret = Return(arg.schema)

\* With enforcement switched off, a schema that is not a valid document was
\* returned unchanged.
C11_Witness ==
    /\ op = "validate_parameter_openapi_schema"
    /\ "enforce_parameter_schema" \in DOMAIN ctx
    /\ ctx["enforce_parameter_schema"] = PyBool(FALSE)
    /\ arg.schema # NoneSchema
    /\ HasUnknownType(arg.schema)
    /\ ret = Return(arg.schema)

====
